---------------------------- MODULE Spec2Model ----------------------------
(***************************************************************************)
(* Model of smartapizc.history: HistoricalAPIBase (base.py) and            *)
(* GetHistoricalData (core.py).                                            *)
(*                                                                         *)
(* Python values are modelled as follows.                                  *)
(*   - a from/to argument is a record [type, fields]: type is the Python   *)
(*     type ("datetime", "date", "str", "int"); fields are the calendar    *)
(*     fields the value holds: <<Y,m,d,H,M,S>> for a datetime, <<Y,m,d>>   *)
(*     for a date, and for a str the numbers its text spells, <<Y,m,d,H,M>>*)
(*     for a text in the pattern "%Y-%m-%d %H:%M".                         *)
(*     Datetimes are naive (no tzinfo), as strptime gives them.            *)
(*   - a call either returns or raises: [ok, val, exc, msg].               *)
(***************************************************************************)
EXTENDS Integers, Sequences, FiniteSets, TLC

VARIABLES
    fetchers,   \* the GetHistoricalData objects constructed so far, by their fields
    ncalls,     \* the client's call counter: calls of getCandleData received
    npassed,    \* history: gets that passed validation and held a usable client
    pc,         \* the caller: "ready" to call, or holding what a call "returned"
    last,       \* the call just made: its arguments and how it ended
    inp         \* the arguments drawn for a direct call of a validator method

vars == <<fetchers, ncalls, npassed, pc, last, inp>>

-----------------------------------------------------------------------------
(* Outcomes of a call. *)

Return(v) == [ok |-> TRUE, val |-> v, exc |-> "", msg |-> ""]

Raise(e, m) == [ok |-> FALSE, val |-> <<>>, exc |-> e, msg |-> m]

-----------------------------------------------------------------------------
(* base.py: assertvalues, setinterval *)

\* base.py:31
Exchanges == {"NSE", "NFO", "BSE", "BFO", "MCX", "CDS"}

\* base.py:49-58
shortkey ==
    [ k \in {"1M", "3M", "5M", "10M", "15M", "30M", "1H", "1D"} |->
        CASE k = "1M"  -> "ONE_MINUTE"
          [] k = "3M"  -> "THREE_MINUTE"
          [] k = "5M"  -> "FIVE_MINUTE"
          [] k = "10M" -> "TEN_MINUTE"
          [] k = "15M" -> "FIFTEEN_MINUTE"
          [] k = "30M" -> "THIRTY_MINUTE"
          [] k = "1H"  -> "ONE_HOUR"
          [] k = "1D"  -> "ONE_DAY" ]

shortkeyValues == { shortkey[k] : k \in DOMAIN shortkey }

\* base.py:77-86
maxdaysforinterval ==
    [ i \in shortkeyValues |->
        CASE i = "ONE_MINUTE"     -> 30
          [] i = "THREE_MINUTE"   -> 60
          [] i = "FIVE_MINUTE"    -> 100
          [] i = "TEN_MINUTE"     -> 100
          [] i = "FIFTEEN_MINUTE" -> 200
          [] i = "THIRTY_MINUTE"  -> 200
          [] i = "ONE_HOUR"       -> 400
          [] i = "ONE_DAY"        -> 2000 ]

\* A mutant of assertvalues: the membership test is dropped.
assertvalues_nocheck(prefix, value, allowed) == Return(value)

\* base.py:41-45: assert value in allowed; return value (assertions enabled,
\* as the interpreter runs them unless it is started with -O)
assertvalues(prefix, value, allowed) ==
    IF value \in allowed
      THEN Return(value)
      ELSE Raise("AssertionError", prefix \o " Value Not in allowed")

\* A mutant of setinterval: the token is returned as given.
setinterval_raw(interval) ==
    assertvalues("Interval", interval, DOMAIN shortkey \cup shortkeyValues)

\* base.py:48-66
setinterval(interval) ==
    LET allowed == DOMAIN shortkey \cup shortkeyValues
        a == assertvalues("Interval", interval, allowed)
    IN  IF ~a.ok THEN a
        ELSE IF a.val \in shortkeyValues THEN Return(a.val)
        ELSE IF a.val \in DOMAIN shortkey THEN Return(shortkey[a.val])
        ELSE Raise("KeyError", "shortkey")

-----------------------------------------------------------------------------
(* The datetime module, as asserttimeperiod uses it. *)

\* base.py:198: the only pattern get passes, "%Y-%m-%d %H:%M"
DtFormat == "%Y-%m-%d %H:%M"

IsLeap(y) == (y % 4 = 0) /\ ((y % 100 # 0) \/ (y % 400 = 0))

DaysInMonth(y, m) ==
    IF m = 2 THEN (IF IsLeap(y) THEN 29 ELSE 28)
    ELSE IF m \in {4, 6, 9, 11} THEN 30 ELSE 31

RECURSIVE DaysBeforeMonth(_, _)
DaysBeforeMonth(y, m) ==
    IF m = 1 THEN 0 ELSE DaysBeforeMonth(y, m - 1) + DaysInMonth(y, m - 1)

DaysBeforeYear(y) ==
    (y - 1) * 365 + ((y - 1) \div 4) - ((y - 1) \div 100) + ((y - 1) \div 400)

\* date.toordinal(): the proleptic Gregorian ordinal of fields <<Y,m,d,...>>
ToOrdinal(f) == DaysBeforeYear(f[1]) + DaysBeforeMonth(f[1], f[2]) + f[3]

IsDateLike(v) == v.type \in {"date", "datetime"}

IsStr(v) == v.type = "str"

\* A mutant of strftime: the minutes are not written ("%Y-%m-%d %H:00").
strftime_nominute(v, dtformat) ==
    IF v.type = "datetime"
      THEN [type |-> "str", fields |-> <<v.fields[1], v.fields[2], v.fields[3], v.fields[4], 0>>]
      ELSE [type |-> "str", fields |-> <<v.fields[1], v.fields[2], v.fields[3], 0, 0>>]

\* base.py:91,98: value.strftime("%Y-%m-%d %H:%M"). A datetime writes its year,
\* month, day, hour and minute (its seconds are not in the pattern); a date
\* writes its year, month and day, and 00:00.
strftime(v, dtformat) ==
    IF v.type = "datetime"
      THEN [type |-> "str", fields |-> <<v.fields[1], v.fields[2], v.fields[3], v.fields[4], v.fields[5]>>]
      ELSE [type |-> "str", fields |-> <<v.fields[1], v.fields[2], v.fields[3], 0, 0>>]

\* base.py:93,100: dt.datetime.strptime(text, "%Y-%m-%d %H:%M"). A text in the
\* pattern gives the datetime with those fields and second 0; any other text
\* raises ValueError.
strptime(s, dtformat) ==
    LET f == s.fields
    IN  IF /\ Len(f) = 5
           /\ f[2] \in 1..12
           /\ f[3] \in 1..DaysInMonth(f[1], f[2])
           /\ f[4] \in 0..23
           /\ f[5] \in 0..59
          THEN Return([type |-> "datetime", fields |-> <<f[1], f[2], f[3], f[4], f[5], 0>>])
          ELSE Raise("ValueError", "time data does not match format")

\* base.py:105: (todate - fromdate).total_seconds(). datetime - datetime and
\* date - date are timedeltas; a date and a datetime do not subtract
\* (TypeError: unsupported operand type(s) for -).
total_seconds(todate, fromdate) ==
    IF todate.type = "datetime" /\ fromdate.type = "datetime"
      THEN Return( (ToOrdinal(todate.fields) - ToOrdinal(fromdate.fields)) * 86400
                   + (todate.fields[4] - fromdate.fields[4]) * 3600
                   + (todate.fields[5] - fromdate.fields[5]) * 60
                   + (todate.fields[6] - fromdate.fields[6]) )
    ELSE IF todate.type = "date" /\ fromdate.type = "date"
      THEN Return( (ToOrdinal(todate.fields) - ToOrdinal(fromdate.fields)) * 86400 )
    ELSE Raise("TypeError", "unsupported operand type(s) for -")

\* base.py:69-109
asserttimeperiod(fromdate, todate, interval, dtformat) ==
    LET \* base.py:90-95
        f == IF IsDateLike(fromdate)
               THEN Return(<<strftime(fromdate, dtformat), fromdate>>)
             ELSE IF IsStr(fromdate)
               THEN LET p == strptime(fromdate, dtformat)
                    IN  IF p.ok THEN Return(<<fromdate, p.val>>) ELSE p
             ELSE Raise("ValueError", "From Date is not in Valid Format.")
        \* base.py:97-102
        t == IF IsDateLike(todate)
               THEN Return(<<strftime(todate, dtformat), todate>>)
             ELSE IF IsStr(todate)
               THEN LET p == strptime(todate, dtformat)
                    IN  IF p.ok THEN Return(<<todate, p.val>>) ELSE p
             ELSE Raise("ValueError", "To Date is not in Valid Format.")
    IN  IF ~f.ok THEN f
        ELSE IF ~t.ok THEN t
        ELSE LET diff == total_seconds(t.val[2], f.val[2])
             IN  IF ~diff.ok THEN diff
                 ELSE IF interval \notin DOMAIN maxdaysforinterval
                   THEN Raise("KeyError", "maxdaysforinterval")
                 ELSE IF diff.val <= maxdaysforinterval[interval] * 24 * 60 * 60
                   THEN Return(<<f.val[1], t.val[1]>>)
                 ELSE Raise("AssertionError", "Time Period Exceeds the Limit")

-----------------------------------------------------------------------------
(* core.py: GetHistoricalData *)

\* core.py:52-53 and base.py:28-37: the exchange is asserted, then both are
\* stored. The issubclass assertion of base.py:37 holds for GetHistoricalData,
\* whose get has the annotations of the abstract get (base.py:145-160).
GetHistoricalData(exchange, symboltoken) ==
    LET a == assertvalues("Exchange", exchange, Exchanges)
    IN  IF ~a.ok THEN a
        ELSE Return([exchange |-> a.val, symboltoken |-> symboltoken])

\* A mutant of makeparams: the exchange is a fixed one, from and to change places.
makeparams_fixed(self, interval, fromdate, todate) ==
    [exchange |-> "NSE", symboltoken |-> self.symboltoken,
     interval |-> interval, fromdate |-> todate, todate |-> fromdate]

\* core.py:56-84
makeparams(self, interval, fromdate, todate) ==
    [exchange |-> self.exchange, symboltoken |-> self.symboltoken,
     interval |-> interval, fromdate |-> fromdate, todate |-> todate]

\* kwargs.get(key, default)
kwargs_get(kwargs, key, default) ==
    IF key \in DOMAIN kwargs THEN kwargs[key] ELSE default

\* Whether client.getCandleData resolves: None and a plain object have no such
\* attribute (AttributeError).
HasGetCandleData(client) == client = "SmartConnect"

\* The value rdtype(data, **rdtypekwargs) builds: the container type, the rows
\* it holds and the options it took.
Container(rdtype, data, rdtypekwargs) ==
    [type |-> rdtype, items |-> data, options |-> rdtypekwargs]

\* A mutant of the coercion: the first row is lost.
rdtype_call_tail(rdtype, data, rdtypekwargs) ==
    IF rdtype \in {"list", "tuple"} /\ rdtypekwargs # {}
      THEN Raise("TypeError", "takes no keyword arguments")
    ELSE IF \E o \in rdtypekwargs : \E k \in 1..Len(data) : Len(data[k]) # o[2]
      THEN Raise("ValueError", "columns passed")
    ELSE Return(Container(rdtype, IF data = <<>> THEN data ELSE Tail(data), rdtypekwargs))

\* core.py:205-210: rdtype(data, **rdtypekwargs), rdtypekwargs a set of
\* <<keyword, value>>. The builtins list and tuple hold the rows in their
\* order and take no keyword (TypeError); pd.DataFrame (core.py:175-180) holds
\* the rows under the column labels given, <<"columns", n>> for n labels, and
\* raises ValueError when a row has another number of fields.
rdtype_call(rdtype, data, rdtypekwargs) ==
    IF rdtype \in {"list", "tuple"} /\ rdtypekwargs # {}
      THEN Raise("TypeError", "takes no keyword arguments")
    ELSE IF \E o \in rdtypekwargs : \E k \in 1..Len(data) : Len(data[k]) # o[2]
      THEN Raise("ValueError", "columns passed")
    ELSE Return(Container(rdtype, data, rdtypekwargs))

\* What a get hands back to the action: how it ended and the payloads it gave
\* to client.getCandleData.
Ended(ret, sent) == [ret |-> ret, sent |-> sent]

\* A mutant of get: the request is sent before the range is asserted.
get_sendfirst(self, interval, fromdate, todate, kwargs, reply) ==
    LET client == kwargs_get(kwargs, "client", "None")
        rdtype == kwargs_get(kwargs, "rdtype", "list")
        i == setinterval(interval)
        payload == makeparams(self, IF i.ok THEN i.val ELSE interval, fromdate, todate)
        p == asserttimeperiod(fromdate, todate, i.val, DtFormat)
    IN  IF ~HasGetCandleData(client)
          THEN Ended(Raise("AttributeError", "getCandleData"), <<>>)
        ELSE IF ~i.ok THEN Ended(i, <<payload>>)
        ELSE IF ~p.ok THEN Ended(p, <<payload>>)
        ELSE IF ~reply.ok THEN Ended(Raise("ClientError", "getCandleData"), <<payload>>)
        ELSE Ended(rdtype_call(rdtype, reply.data, kwargs_get(kwargs, "rdtypekwargs", {})),
                   <<payload>>)

\* A mutant of get: a failed request is sent once more.
get_retry(self, interval, fromdate, todate, kwargs, reply) ==
    LET client == kwargs_get(kwargs, "client", "None")
        rdtype == kwargs_get(kwargs, "rdtype", "list")
        i == setinterval(interval)
        p == asserttimeperiod(fromdate, todate, i.val, DtFormat)
        payload == makeparams(self, i.val, p.val[1], p.val[2])
    IN  IF ~i.ok THEN Ended(i, <<>>)
        ELSE IF ~p.ok THEN Ended(p, <<>>)
        ELSE IF ~HasGetCandleData(client)
          THEN Ended(Raise("AttributeError", "getCandleData"), <<>>)
        ELSE IF ~reply.ok
          THEN Ended(Raise("ClientError", "getCandleData"), <<payload, payload>>)
        ELSE Ended(rdtype_call(rdtype, reply.data, kwargs_get(kwargs, "rdtypekwargs", {})),
                   <<payload>>)

\* A mutant of get: the client's method is looked up before the validation.
get_clientfirst(self, interval, fromdate, todate, kwargs, reply) ==
    LET client == kwargs_get(kwargs, "client", "None")
        rdtype == kwargs_get(kwargs, "rdtype", "list")
        i == setinterval(interval)
        p == asserttimeperiod(fromdate, todate, i.val, DtFormat)
        payload == makeparams(self, i.val, p.val[1], p.val[2])
    IN  IF ~HasGetCandleData(client)
          THEN Ended(Raise("AttributeError", "getCandleData"), <<>>)
        ELSE IF ~i.ok THEN Ended(i, <<>>)
        ELSE IF ~p.ok THEN Ended(p, <<>>)
        ELSE IF ~reply.ok THEN Ended(Raise("ClientError", "getCandleData"), <<payload>>)
        ELSE Ended(rdtype_call(rdtype, reply.data, kwargs_get(kwargs, "rdtypekwargs", {})),
                   <<payload>>)

\* core.py:195-210. reply is what client.getCandleData does when it is called:
\* it raises, or returns a response whose "data" field holds reply.data.
get(self, interval, fromdate, todate, kwargs, reply) ==
    LET \* core.py:202-203
        client == kwargs_get(kwargs, "client", "None")
        rdtype == kwargs_get(kwargs, "rdtype", "list")
        \* core.py:195
        i == setinterval(interval)
        \* core.py:196-199
        p == asserttimeperiod(fromdate, todate, i.val, DtFormat)
        \* core.py:207
        payload == makeparams(self, i.val, p.val[1], p.val[2])
    IN  IF ~i.ok THEN Ended(i, <<>>)
        ELSE IF ~p.ok THEN Ended(p, <<>>)
        \* core.py:206: client.getCandleData is looked up before its argument is built
        ELSE IF ~HasGetCandleData(client)
          THEN Ended(Raise("AttributeError", "getCandleData"), <<>>)
        ELSE IF ~reply.ok THEN Ended(Raise("ClientError", "getCandleData"), <<payload>>)
        \* core.py:205-210
        ELSE Ended(rdtype_call(rdtype, reply.data, kwargs_get(kwargs, "rdtypekwargs", {})),
                   <<payload>>)

-----------------------------------------------------------------------------
(* Bounds and the arguments the callers draw. *)

MaxFetchers == 2

MaxCalls == 2

Dt(f) == [type |-> "datetime", fields |-> f]

Date(f) == [type |-> "date", fields |-> f]

Str(f) == [type |-> "str", fields |-> f]

\* Neither a date, a datetime nor a str: an int, None.
NotADate == [type |-> "int", fields |-> <<>>]

\* date.fromordinal over the years the inputs span.
FromOrdinal(n) ==
    CHOOSE f \in (2024..2031) \X (1..12) \X (1..31) :
        f[3] <= DaysInMonth(f[1], f[2]) /\ ToOrdinal(f) = n

\* The day n days after 2025-01-01.
DayAfter(n) == FromOrdinal(ToOrdinal(<<2025, 1, 1>>) + n)

\* The spans the table allows: 30, 60, 100, 200, 400 and 2000 days.
Limits == { maxdaysforinterval[i] : i \in DOMAIN maxdaysforinterval }

\* From values: 2025-01-01 in each shape, a datetime with seconds, a text that
\* is not in the pattern ("2025-01-01") and a value that is no date at all.
FromInputs ==
    { Dt(<<2025, 1, 1, 0, 0, 0>>), Date(<<2025, 1, 1>>), Str(<<2025, 1, 1, 0, 0>>),
      Dt(<<2025, 1, 1, 9, 15, 30>>), Str(<<2025, 1, 1>>), NotADate }

\* To values: for each limit, the instant at the limit after 2025-01-01 and the
\* next second, minute and day, in each shape; two instants before 2025-01-01;
\* 2025-01-01 itself (a span of zero) and 2019-01-01 (2192 days before, more
\* than the largest limit) in each shape; and the values that are no date.
ToInputs ==
    UNION { LET d == DayAfter(n)
                e == DayAfter(n + 1)
            IN  { Dt(<<d[1], d[2], d[3], 0, 0, 0>>), Dt(<<d[1], d[2], d[3], 0, 0, 1>>),
                  Dt(<<d[1], d[2], d[3], 9, 15, 30>>),
                  Str(<<d[1], d[2], d[3], 0, 0>>), Str(<<d[1], d[2], d[3], 0, 1>>),
                  Date(d), Date(e) } : n \in Limits }
    \cup { Dt(<<2024, 12, 1, 0, 0, 0>>), Str(<<2024, 12, 31, 23, 59>>), Date(<<2024, 1, 1>>),
           Str(<<2025, 1, 1>>), NotADate }
    \cup { Dt(<<2025, 1, 1, 0, 0, 0>>), Str(<<2025, 1, 1, 0, 0>>), Date(<<2025, 1, 1>>),
           Dt(<<2019, 1, 1, 0, 0, 0>>), Str(<<2019, 1, 1, 0, 0>>), Date(<<2019, 1, 1>>) }

IntervalInputs == DOMAIN shortkey \cup shortkeyValues \cup {"2M", "one_minute", "ONE_WEEK"}

ValidatorInputs ==
    [interval : IntervalInputs, fromdate : FromInputs, todate : ToInputs]

\* (exchange, symboltoken) pairs for the constructor: every exchange of the
\* list, two symbol tokens, and two exchanges that are not in the list.
ConstructInputs ==
    { <<e, "99926000">> : e \in Exchanges }
    \cup { <<"NSE", "3045">>, <<"BSE", "3045">>, <<"XYZ", "99926000">>, <<"nse", "3045">> }

\* The arguments of get in the main specification: the shorthand and the
\* canonical form of one interval, another interval and a token that is none.
GetIntervalInputs == {"1M", "ONE_MINUTE", "1D", "2M"}

\* (from, to) pairs: the example of the docstring (core.py:163); datetimes 30
\* days and one second apart; a datetime with seconds and one 30 days later;
\* a date with a datetime; a value that is no date; to 59 days before from
\* (more than the 30 days of ONE_MINUTE); to equal to from; to a date before a
\* from that is a datetime.
GetRangeInputs ==
    { <<Str(<<2025, 1, 10, 15, 0>>), Str(<<2025, 1, 10, 15, 30>>)>>,
      <<Dt(<<2025, 1, 1, 0, 0, 0>>), Dt(<<2025, 1, 31, 0, 0, 1>>)>>,
      <<Dt(<<2025, 1, 1, 9, 15, 30>>), Dt(<<2025, 1, 31, 0, 0, 0>>)>>,
      <<Date(<<2025, 1, 1>>), Dt(<<2025, 1, 2, 0, 0, 0>>)>>,
      <<NotADate, Str(<<2025, 1, 10, 15, 30>>)>>,
      <<Dt(<<2025, 3, 1, 9, 15, 30>>), Dt(<<2025, 1, 1, 0, 0, 0>>)>>,
      <<Str(<<2025, 1, 10, 15, 0>>), Str(<<2025, 1, 10, 15, 0>>)>>,
      <<Dt(<<2025, 1, 2, 0, 0, 0>>), Date(<<2025, 1, 1>>)>> }

\* The keyword arguments of get: with and without a client, an rdtype and
\* rdtypekwargs.
KwargsInputs ==
    { [client |-> "SmartConnect"],
      [client |-> "SmartConnect", rdtype |-> "tuple"],
      [client |-> "SmartConnect", rdtype |-> "tuple", rdtypekwargs |-> {}],
      [client |-> "SmartConnect", rdtypekwargs |-> {<<"columns", 6>>}],
      [client |-> "SmartConnect", rdtype |-> "DataFrame", rdtypekwargs |-> {<<"columns", 6>>}],
      [client |-> "SmartConnect", rdtype |-> "DataFrame", rdtypekwargs |-> {<<"columns", 5>>}],
      [client |-> "object"],
      [client |-> "object", rdtype |-> "tuple"],
      [client |-> "None", rdtypekwargs |-> {<<"columns", 6>>}],
      [rdtype |-> "list"] }

\* Candle rows (core.py:168-169).
Row1 == <<"2025-01-10T15:00:00+05:30", "23410.85", "23418.9", "23402.95", "23404.25", "0">>

Row2 == <<"2025-01-10T15:01:00+05:30", "23404.25", "23409.1", "23401.0", "23406.5", "0">>

\* What the client may do with a request: raise, or return a response whose
\* "data" holds no row, one row, or two rows in either order.
Replies ==
    { [ok |-> FALSE, data |-> <<>>] }
    \cup { [ok |-> TRUE, data |-> d] : d \in { <<>>, <<Row1>>, <<Row1, Row2>>, <<Row2, Row1>> } }

\* The reply that stands in the record of a get that never called the client.
NoReply == [ok |-> FALSE, data |-> <<>>]

NoCall == [op |-> "none"]

NoInput == [interval |-> "", fromdate |-> NotADate, todate |-> NotADate]

-----------------------------------------------------------------------------
(* The main specification: a caller constructs fetchers and calls get. *)

Init ==
    /\ fetchers = {}
    /\ ncalls = 0
    /\ npassed = 0
    /\ pc = "ready"
    /\ last = NoCall
    /\ inp = NoInput

\* interface = GetHistoricalData(exchange, symboltoken)
Construct(exchange, symboltoken) ==
    LET r == GetHistoricalData(exchange, symboltoken)
    IN  /\ pc = "ready"
        /\ r.ok => (r.val \in fetchers \/ Cardinality(fetchers) < MaxFetchers)
        /\ fetchers' = IF r.ok THEN fetchers \cup {r.val} ELSE fetchers
        /\ last' = [op |-> "init", args |-> <<exchange, symboltoken>>, ret |-> r]
        /\ pc' = "returned"
        /\ UNCHANGED <<ncalls, npassed, inp>>

\* Whether the arguments of a get pass setinterval and asserttimeperiod.
Validated(interval, fromdate, todate) ==
    /\ setinterval(interval).ok
    /\ asserttimeperiod(fromdate, todate, setinterval(interval).val, DtFormat).ok

\* data = interface.get(interval, fromdate, todate, **kwargs), the client
\* answering with reply when it is called.
Get(self, interval, fromdate, todate, kwargs, reply) ==
    LET r == get(self, interval, fromdate, todate, kwargs, reply)
    IN  /\ pc = "ready"
        /\ ncalls < MaxCalls
        /\ (r.sent = <<>>) => (reply = NoReply)
        /\ ncalls' = ncalls + Len(r.sent)
        /\ npassed' = IF /\ Validated(interval, fromdate, todate)
                         /\ HasGetCandleData(kwargs_get(kwargs, "client", "None"))
                        THEN npassed + 1 ELSE npassed
        /\ last' = [op |-> "get", self |-> self,
                    args |-> [interval |-> interval, fromdate |-> fromdate,
                              todate |-> todate, kwargs |-> kwargs],
                    reply |-> reply, ret |-> r.ret, sent |-> r.sent]
        /\ pc' = "returned"
        /\ UNCHANGED <<fetchers, inp>>

\* The caller takes what the call returned or raised and goes on
\* (core.py:155-180: one call after the other).
Continue ==
    /\ pc = "returned"
    /\ pc' = "ready"
    /\ last' = NoCall
    /\ UNCHANGED <<fetchers, ncalls, npassed, inp>>

Next ==
    \/ pc = "ready" /\ \E c \in ConstructInputs : Construct(c[1], c[2])
    \/ pc = "ready" /\ \E self \in fetchers, i \in GetIntervalInputs, r \in GetRangeInputs,
                          k \in KwargsInputs, reply \in Replies :
                              Get(self, i, r[1], r[2], k, reply)
    \/ Continue

Spec == Init /\ [][Next]_vars

-----------------------------------------------------------------------------
(* The validator specification: setinterval and asserttimeperiod called       *)
(* directly on drawn arguments.                                               *)

InitValidator ==
    /\ fetchers = {}
    /\ ncalls = 0
    /\ npassed = 0
    /\ pc = "ready"
    /\ last = NoCall
    /\ inp \in ValidatorInputs

CallSetInterval ==
    /\ pc = "ready"
    /\ last' = [op |-> "setinterval", ret |-> setinterval(inp.interval)]
    /\ pc' = "returned"
    /\ UNCHANGED <<fetchers, ncalls, npassed, inp>>

CallAssertTimePeriod ==
    /\ pc = "ready"
    /\ last' = [op |-> "asserttimeperiod",
                ret |-> asserttimeperiod(inp.fromdate, inp.todate, inp.interval, DtFormat)]
    /\ pc' = "returned"
    /\ UNCHANGED <<fetchers, ncalls, npassed, inp>>

NextValidator == CallSetInterval \/ CallAssertTimePeriod

SpecValidator == InitValidator /\ [][NextValidator]_vars

-----------------------------------------------------------------------------
(* The vocabulary of the claims. *)

\* The sixteen tokens and the canonical token each stands for, written out.
IntervalPairs ==
    { <<"1M", "ONE_MINUTE">>, <<"3M", "THREE_MINUTE">>, <<"5M", "FIVE_MINUTE">>,
      <<"10M", "TEN_MINUTE">>, <<"15M", "FIFTEEN_MINUTE">>, <<"30M", "THIRTY_MINUTE">>,
      <<"1H", "ONE_HOUR">>, <<"1D", "ONE_DAY">> }

CanonicalOf(token) ==
    CHOOSE c \in { q[2] : q \in IntervalPairs } :
        \E q \in IntervalPairs : q[2] = c /\ token \in {q[1], q[2]}

SixteenTokens == { q[1] : q \in IntervalPairs } \cup { q[2] : q \in IntervalPairs }

\* The limit of a canonical interval in days, written out.
MaxDaysOf(c) ==
    CASE c = "ONE_MINUTE" -> 30 [] c = "THREE_MINUTE" -> 60 [] c = "FIVE_MINUTE" -> 100
      [] c = "TEN_MINUTE" -> 100 [] c = "FIFTEEN_MINUTE" -> 200
      [] c = "THIRTY_MINUTE" -> 200 [] c = "ONE_HOUR" -> 400 [] c = "ONE_DAY" -> 2000

\* ConfigurationError is the specification's name for the failure of
\* assertvalues (an AssertionError "<prefix> Value ... Not in: ...").
ConfigurationError(r) ==
    /\ ~r.ok
    /\ r.exc = "AssertionError"
    /\ r.msg \in {"Exchange Value Not in allowed", "Interval Value Not in allowed"}

\* Range-too-large is the failure of the assertion of base.py:106.
RangeTooLarge(r) ==
    ~r.ok /\ r.exc = "AssertionError" /\ r.msg = "Time Period Exceeds the Limit"

\* ValueError (invalid date format) of base.py:95,102.
InvalidDateFormat(r) ==
    /\ ~r.ok
    /\ r.exc = "ValueError"
    /\ r.msg \in {"From Date is not in Valid Format.", "To Date is not in Valid Format."}

\* A calendar date, a date-time, or a string in the fixed format.
WellShaped(v) ==
    \/ v.type = "datetime" /\ Len(v.fields) = 6
    \/ v.type = "date" /\ Len(v.fields) = 3
    \/ v.type = "str" /\ Len(v.fields) = 5

\* The instant a well-shaped value names, in seconds since 2024-01-01 00:00:00:
\* a date is its midnight, a string has no seconds.
Instant(v) ==
    LET f == v.fields
    IN  (ToOrdinal(f) - ToOrdinal(<<2024, 1, 1>>)) * 86400
        + (IF Len(f) >= 4 THEN f[4] * 3600 ELSE 0)
        + (IF Len(f) >= 5 THEN f[5] * 60 ELSE 0)
        + (IF Len(f) >= 6 THEN f[6] ELSE 0)

\* A date/time value cut to the minute, as the fields of a datetime.
TruncMinute(v) ==
    LET f == v.fields
    IN  IF v.type = "datetime" THEN <<f[1], f[2], f[3], f[4], f[5], 0>>
        ELSE <<f[1], f[2], f[3], 0, 0, 0>>

RangeChecked == pc = "returned" /\ last.op = "asserttimeperiod"

GetReturned == pc = "returned" /\ last.op = "get"

ClientOf(kwargs) == IF "client" \in DOMAIN kwargs THEN kwargs.client ELSE "None"

-----------------------------------------------------------------------------
(* C1 and C10: the range check over the input shapes (SpecValidator). *)

\* C1, as stated: for every canonical interval and every pair of from and to
\* values, the range check succeeds exactly when to - from in seconds is at
\* most max_days(interval) * 86400, and otherwise fails with range-too-large.
\* Violated: a date with a datetime (or with a string) ends in TypeError
\* whatever the span is, see C10.
C1_RangeCheck ==
    (RangeChecked /\ inp.interval \in DOMAIN maxdaysforinterval
        /\ WellShaped(inp.fromdate) /\ WellShaped(inp.todate))
    => /\ last.ret.ok <=>
            (Instant(inp.todate) - Instant(inp.fromdate) <= MaxDaysOf(inp.interval) * 86400)
       /\ ~last.ret.ok => RangeTooLarge(last.ret)

\* What does hold of the code: on the pairs whose two comparison values are of
\* one type (two dates, or two of datetime and string) the check succeeds
\* exactly when the span is within the limit, and the limit itself passes.
RangeCheckOfOneType ==
    (RangeChecked /\ inp.interval \in DOMAIN maxdaysforinterval
        /\ WellShaped(inp.fromdate) /\ WellShaped(inp.todate)
        /\ (inp.fromdate.type = "date") = (inp.todate.type = "date"))
    => /\ last.ret.ok <=>
            (Instant(inp.todate) - Instant(inp.fromdate) <= MaxDaysOf(inp.interval) * 86400)
       /\ ~last.ret.ok => RangeTooLarge(last.ret)

\* C10, as stated: for every combination of the shapes date, date-time and
\* string in the fixed format the range normalizer ends by returning two
\* strings or with range-too-large, and any other shape fails with ValueError.
\* Violated: from a date and to a datetime end in TypeError.
C10_Shapes ==
    (RangeChecked /\ inp.interval \in DOMAIN maxdaysforinterval)
    => IF WellShaped(inp.fromdate) /\ WellShaped(inp.todate)
         THEN \/ RangeTooLarge(last.ret)
              \/ /\ last.ret.ok
                 /\ last.ret.val[1].type = "str"
                 /\ last.ret.val[2].type = "str"
         ELSE ~last.ret.ok /\ last.ret.exc = "ValueError"

-----------------------------------------------------------------------------
(* C2: setinterval (SpecValidator). *)

\* C2: each of the sixteen tokens gives the canonical token of its pair, the
\* same for the shorthand and the canonical form; the result is a key of the
\* max-days table and setinterval maps it to itself; any other token fails
\* with ConfigurationError.
C2_Interval ==
    (pc = "returned" /\ last.op = "setinterval")
    => IF inp.interval \in SixteenTokens
         THEN /\ last.ret.ok
              /\ last.ret.val = CanonicalOf(inp.interval)
              /\ last.ret.val \in DOMAIN maxdaysforinterval
              /\ setinterval(last.ret.val) = last.ret
              /\ \A q \in IntervalPairs :
                    inp.interval \in {q[1], q[2]}
                    => setinterval(q[1]) = last.ret /\ setinterval(q[2]) = last.ret
         ELSE ConfigurationError(last.ret)

C2_Witness ==
    /\ pc = "returned" /\ last.op = "setinterval"
    /\ inp.interval = "15M"
    /\ last.ret.ok /\ last.ret.val = "FIFTEEN_MINUTE"

-----------------------------------------------------------------------------
(* C8: the round trip of the range normalizer (SpecValidator). *)

\* One side of the round trip: given is the argument, returned the string
\* asserttimeperiod returned for it.
RoundTrip(given, returned) ==
    IF given.type = "str"
      THEN returned = given
      ELSE LET q == strptime(returned, DtFormat)
           IN  q.ok /\ q.val.type = "datetime" /\ q.val.fields = TruncMinute(given)

\* C8: when asserttimeperiod returns, parsing the string it returned for a
\* date/time argument with the same pattern gives the argument cut to the
\* minute, and the string returned for a string argument is that string.
C8_RoundTrip ==
    (RangeChecked /\ last.ret.ok)
    => /\ RoundTrip(inp.fromdate, last.ret.val[1])
       /\ RoundTrip(inp.todate, last.ret.val[2])

C8_Witness ==
    /\ RangeChecked /\ last.ret.ok
    /\ inp.fromdate = Dt(<<2025, 1, 1, 9, 15, 30>>)
    /\ last.ret.val[1] = Str(<<2025, 1, 1, 9, 15>>)
    /\ inp.todate.type = "str"

-----------------------------------------------------------------------------
(* C3: the constructor (Spec). *)

\* C3: a construction with one of the six exchanges succeeds and the fetcher
\* holds that exchange unchanged; with any other value it fails with
\* ConfigurationError and leaves no fetcher behind; neither calls the client.
C3_Construct ==
    [][ (pc = "ready" /\ last'.op = "init")
        => /\ ncalls' = ncalls
           /\ IF last'.args[1] \in {"NSE", "NFO", "BSE", "BFO", "MCX", "CDS"}
                THEN /\ last'.ret.ok
                     /\ last'.ret.val.exchange = last'.args[1]
                     /\ last'.ret.val.symboltoken = last'.args[2]
                     /\ fetchers' = fetchers \cup {last'.ret.val}
                ELSE /\ ConfigurationError(last'.ret)
                     /\ fetchers' = fetchers ]_vars

C3_Witness ==
    /\ pc = "returned" /\ last.op = "init"
    /\ last.args[1] = "XYZ"
    /\ ConfigurationError(last.ret)
    /\ fetchers = {}
    /\ ncalls = 0

-----------------------------------------------------------------------------
(* C4, C5, C9: the order of validation, client lookup and request (Spec). *)

\* The failures of the validation that C4 names.
ValidationFailure(r) ==
    ConfigurationError(r) \/ InvalidDateFormat(r) \/ RangeTooLarge(r)

\* C4: a get that ends with a validation failure has not called the client.
C4_FailFast ==
    [][ (pc = "ready" /\ last'.op = "get" /\ ValidationFailure(last'.ret))
        => ncalls' = ncalls /\ last'.sent = <<>> ]_vars

C4_Witness ==
    /\ GetReturned
    /\ RangeTooLarge(last.ret)
    /\ ClientOf(last.args.kwargs) = "SmartConnect"
    /\ ncalls = 0

\* C5, as stated: every get whose inputs pass validation makes exactly one
\* call to the client. Violated: a get with valid inputs and no client, or a
\* client without getCandleData, makes none (it ends in AttributeError, C9).
C5_Original ==
    [][ (pc = "ready" /\ last'.op = "get"
            /\ Validated(last'.args.interval, last'.args.fromdate, last'.args.todate))
        => ncalls' = ncalls + 1 ]_vars

\* C5, amended: every get whose inputs pass validation and whose client has
\* getCandleData hands the client exactly one request, whether the client
\* returns rows or raises, and every other get hands it none; the client's
\* call counter equals the number of those gets.
C5_OneCall ==
    /\ ncalls = npassed
    /\ GetReturned
       => Len(last.sent) =
            IF /\ Validated(last.args.interval, last.args.fromdate, last.args.todate)
               /\ ClientOf(last.args.kwargs) = "SmartConnect"
              THEN 1 ELSE 0

C5_Witness ==
    /\ GetReturned
    /\ ~last.reply.ok
    /\ last.ret.exc = "ClientError"
    /\ Len(last.sent) = 1
    /\ ncalls = 2

\* C9: a get without a client that has getCandleData ends in AttributeError
\* when its inputs pass validation, and in the validation's own failure when
\* they do not; the constructor takes no client.
C9_NoClient ==
    /\ (GetReturned /\ ClientOf(last.args.kwargs) # "SmartConnect")
       => /\ ~last.ret.ok
          /\ last.sent = <<>>
          /\ (last.ret.exc = "AttributeError")
                <=> Validated(last.args.interval, last.args.fromdate, last.args.todate)
          /\ ~setinterval(last.args.interval).ok => ConfigurationError(last.ret)
    /\ (pc = "returned" /\ last.op = "init" /\ last.args[1] \in Exchanges) => last.ret.ok

C9_Witness ==
    /\ GetReturned
    /\ "client" \notin DOMAIN last.args.kwargs
    /\ last.args.interval = "1M"
    /\ last.ret.exc = "AttributeError"
    /\ ncalls = 0

-----------------------------------------------------------------------------
(* C6, C7: the request and the result (Spec). *)

\* C6: the payload handed to the client holds the exchange and symbol token of
\* the fetcher as constructed, the canonical interval of the token passed, and
\* the two strings asserttimeperiod returns for the from and to passed.
C6_Payload ==
    (GetReturned /\ last.sent # <<>>)
    => LET p == last.sent[1]
           n == asserttimeperiod(last.args.fromdate, last.args.todate,
                                 CanonicalOf(last.args.interval), DtFormat)
       IN  /\ last.self \in fetchers
           /\ p.exchange = last.self.exchange
           /\ p.exchange \in {"NSE", "NFO", "BSE", "BFO", "MCX", "CDS"}
           /\ p.symboltoken = last.self.symboltoken
           /\ p.interval = CanonicalOf(last.args.interval)
           /\ p.fromdate.type = "str" /\ p.todate.type = "str"
           /\ n.ok /\ p.fromdate = n.val[1] /\ p.todate = n.val[2]

C6_Witness ==
    /\ GetReturned
    /\ last.args.interval = "1M"
    /\ last.args.fromdate = Dt(<<2025, 1, 1, 9, 15, 30>>)
    /\ Len(last.sent) = 1
    /\ last.sent[1].interval = "ONE_MINUTE"
    /\ last.sent[1].fromdate = Str(<<2025, 1, 1, 9, 15>>)
    /\ last.sent[1].symboltoken = "3045"
    /\ ncalls = 2

\* C7: when the client returns rows, a get with neither rdtype nor
\* rdtypekwargs returns exactly those rows in their order as a list; with an
\* rdtype it returns that type holding those rows and the rdtypekwargs given;
\* and when the type rejects the rdtypekwargs or the shape of the rows, the
\* get ends with that failure.
C7_Rows ==
    (GetReturned /\ last.sent # <<>> /\ last.reply.ok)
    => LET kw == last.args.kwargs
           type == IF "rdtype" \in DOMAIN kw THEN kw.rdtype ELSE "list"
           opts == IF "rdtypekwargs" \in DOMAIN kw THEN kw.rdtypekwargs ELSE {}
       IN  IF type \in {"list", "tuple"} /\ opts # {}
             THEN ~last.ret.ok /\ last.ret.exc = "TypeError"
           ELSE IF type = "DataFrame" /\ opts = {<<"columns", 5>>} /\ last.reply.data # <<>>
             THEN ~last.ret.ok /\ last.ret.exc = "ValueError"
           ELSE /\ last.ret.ok
                /\ last.ret.val.items = last.reply.data
                /\ last.ret.val.type = type
                /\ last.ret.val.options = opts

C7_Witness ==
    /\ GetReturned
    /\ DOMAIN last.args.kwargs = {"client"}
    /\ last.reply.ok /\ last.reply.data = <<Row2, Row1>>
    /\ last.ret.ok
    /\ last.ret.val.type = "list"
    /\ last.ret.val.items = <<Row2, Row1>>

-----------------------------------------------------------------------------
(* C11: ranges whose to is not after from (SpecValidator, Spec). *)

\* The pair is well shaped and to names an instant at or before from.
Reversed(fromdate, todate) ==
    /\ WellShaped(fromdate) /\ WellShaped(todate)
    /\ Instant(todate) <= Instant(fromdate)

\* C11, as stated: for every canonical interval and every pair of from and to
\* values with to <= from, whatever the size of the span, the range check
\* passes and returns the two strings of the pair. Violated: a date with a
\* datetime (or with a string) ends in TypeError, reversed or not, see C10.
C11_Reversed ==
    (RangeChecked /\ inp.interval \in DOMAIN maxdaysforinterval
        /\ Reversed(inp.fromdate, inp.todate))
    => /\ last.ret.ok
       /\ last.ret.val[1].type = "str" /\ last.ret.val[2].type = "str"
       /\ RoundTrip(inp.fromdate, last.ret.val[1])
       /\ RoundTrip(inp.todate, last.ret.val[2])

\* What does hold of the code: on the pairs whose two comparison values are of
\* one type, a range with to <= from passes under every interval and the two
\* strings are returned, also when it is longer than the interval's limit.
ReversedOfOneType ==
    (RangeChecked /\ inp.interval \in DOMAIN maxdaysforinterval
        /\ Reversed(inp.fromdate, inp.todate)
        /\ (inp.fromdate.type = "date") = (inp.todate.type = "date"))
    => /\ last.ret.ok
       /\ last.ret.val[1].type = "str" /\ last.ret.val[2].type = "str"
       /\ RoundTrip(inp.fromdate, last.ret.val[1])
       /\ RoundTrip(inp.todate, last.ret.val[2])

\* The case of ReversedOfOneType that is longer than the limit: 2192 days
\* back under ONE_DAY, whose limit is 2000 days.
ReversedOfOneTypeReached ==
    /\ RangeChecked /\ last.ret.ok
    /\ inp.interval = "ONE_DAY"
    /\ inp.fromdate = Dt(<<2025, 1, 1, 9, 15, 30>>)
    /\ inp.todate = Str(<<2019, 1, 1, 0, 0>>)
    /\ last.ret.val = <<Str(<<2025, 1, 1, 9, 15>>), Str(<<2019, 1, 1, 0, 0>>)>>

\* The same in get (Spec): a get with a canonical or shorthand interval, a
\* range with to <= from of one type and a client that has getCandleData hands
\* the client one request that carries the range as given, to before from.
ReversedFetch ==
    (GetReturned /\ setinterval(last.args.interval).ok
        /\ Reversed(last.args.fromdate, last.args.todate)
        /\ (last.args.fromdate.type = "date") = (last.args.todate.type = "date")
        /\ ClientOf(last.args.kwargs) = "SmartConnect")
    => /\ Len(last.sent) = 1
       /\ RoundTrip(last.args.fromdate, last.sent[1].fromdate)
       /\ RoundTrip(last.args.todate, last.sent[1].todate)
       /\ Instant(last.sent[1].todate) <= Instant(last.sent[1].fromdate)

\* A get that sent a range 59 days back under ONE_MINUTE (limit 30 days).
ReversedFetchReached ==
    /\ GetReturned /\ last.ret.ok
    /\ Len(last.sent) = 1
    /\ last.sent[1].interval = "ONE_MINUTE"
    /\ last.sent[1].fromdate = Str(<<2025, 3, 1, 9, 15>>)
    /\ last.sent[1].todate = Str(<<2025, 1, 1, 0, 0>>)

\* In get the mixed pair ends as in the range check: TypeError, nothing sent.
ReversedFetchMixedReached ==
    /\ GetReturned
    /\ last.args.fromdate.type = "datetime" /\ last.args.todate.type = "date"
    /\ Reversed(last.args.fromdate, last.args.todate)
    /\ ClientOf(last.args.kwargs) = "SmartConnect"
    /\ ~last.ret.ok /\ last.ret.exc = "TypeError"
    /\ last.sent = <<>>

=============================================================================
